---------------------------- MODULE Spec2Model ----------------------------
(***************************************************************************)
(* A model of gopacket's Endpoint/Flow values (flows.go) and of the ICMPv6 *)
(* neighbor-discovery decoders (layers/icmp6msg.go), the latter called     *)
(* directly or from a packet under assembly.  Spec is a caller of          *)
(* flows.go, SpecDecode a caller of the decoders, SpecRegistry a caller of *)
(* the EndpointType registry, SpecReuse a caller that decodes into one     *)
(* layer object again and again, SpecFlags a caller of the flag accessors. *)
(* SpecDNS serializes and decodes DNS layers;                              *)
(* the DNS code is modelled from its specification and its tests           *)
(* (layers/dns_test.go).                                                   *)
(*                                                                         *)
(* Go values are modelled as records; a Go byte slice is a sequence of     *)
(* numbers 0..255; a Go [16]byte array is a sequence of length 16; Go      *)
(* index i is TLA+ index i+1.  A uint64 is kept as its 8 bytes, least      *)
(* significant first, so that no arithmetic leaves the 64-bit range.       *)
(***************************************************************************)
EXTENDS Integers, Sequences, FiniteSets, TLC

VARIABLES
    pc,     \* where the caller is in its sequence of calls
    in1,    \* first caller-supplied (typ, raw) pair
    in2,    \* second caller-supplied (typ, raw) pair
    a,      \* an Endpoint held by the caller
    b,      \* a second Endpoint held by the caller
    f,      \* the Flow held by the caller
    f0,     \* the Flow as it was returned by its constructor
    err,    \* outcome of the last call: "nil", an error text, or a panic text
    h0,     \* f0.FastHash() as last computed
    h,      \* f.FastHash() as last computed
    g2,     \* a second Flow the caller builds
    hg2,    \* g2.FastHash() as last computed
    call,   \* the decode call under way: layer kind, bytes, how it is made
    lyr,    \* the ICMPv6 layer struct being decoded into
    rest,   \* the local "data" of ICMPv6Options.DecodeFromBytes
    trunc,  \* whether df.SetTruncated() has been called
    reads,  \* the index and slice expressions evaluated on call.data
    layers, \* the layers the packet under assembly exposes, in order
    sbuf,   \* the byte slice handed to SerializeTo
    endpointTypes, \* flows.go: var endpointTypes, the registry map
    regCall,       \* the last RegisterEndpointType call and how it ended
    dns,    \* the DNS layer a caller constructs and serializes
    wire,   \* the bytes of a DNS message
    dns2,   \* the DNS layer being decoded from wire
    nd,     \* the name decoder: cursor, pointer bound, labels read
    sopts,  \* the SerializeOptions of the DNS serialization
    ndecoded, \* DecodeFromBytes calls on lyr that ended before this one
    before,   \* lyr.Options as it was when the call under way began
    acc       \* what the flag accessors of lyr last returned

flowVars == <<in1, in2, a, b, f, f0, h0, h, g2, hg2>>

decVars == <<call, lyr, rest, trunc, reads, layers, sbuf>>

regVars == <<endpointTypes, regCall>>

dnsVars == <<dns, wire, dns2, nd, sopts>>

useVars == <<ndecoded, before, acc>>

vars == <<pc, err, flowVars, g2, hg2, decVars, regVars, dnsVars, useVars>>

---------------------------------------------------------------------------
(* Bounds and input domains *)

\* flows.go: const MaxEndpointSize = 16
MaxEndpointSize == 16

\* longest raw address a caller passes (one more than fits, so that the
\* over-long case happens)
MaxRawLen == 17

\* byte values the caller-supplied addresses are made of
ByteVals == {0, 1, 255}

\* endpoint type numbers in use (0 is EndpointInvalid)
Types == {0, 1}

\* Cycle(p, n): the n-byte address p[1], p[2], p[1], p[2], ...
Cycle(p, n) == [i \in 1..n |-> p[((i - 1) % 2) + 1]]

RawInputs == {Cycle(p, n) : p \in ByteVals \X ByteVals, n \in 0..MaxRawLen}

Inputs == [typ : Types, raw : RawInputs]

\* longest address of the second flow a hash is compared with
MaxOtherLen == 1

\* the addresses that second flow is built from
OtherRaws == {Cycle(p, n) : p \in ByteVals \X ByteVals, n \in 0..MaxOtherLen}

\* longest address (32 bits) for which Flow.FastHash is documented to be
\* free of collisions
HashWords == 4

---------------------------------------------------------------------------
(* 64-bit unsigned arithmetic on 8 little-endian bytes *)

Zero64 == [k \in 1..8 |-> 0]

RECURSIVE XorByte(_, _)
XorByte(x, y) ==
    IF x = 0 THEN y
    ELSE IF y = 0 THEN x
    ELSE (((x % 2) + (y % 2)) % 2) + 2 * XorByte(x \div 2, y \div 2)

\* v ^= uint64(byte) << (8 * lane), lane in 0..7
XorLane(v, lane, byte) == [v EXCEPT ![lane + 1] = XorByte(v[lane + 1], byte)]

\* v << 8 on a uint64: the top byte is shifted out
Shl8(v) == [k \in 1..8 |-> IF k = 1 THEN 0 ELSE v[k - 1]]

RECURSIVE Gt64From(_, _, _)
Gt64From(x, y, k) ==
    IF k = 0 THEN FALSE
    ELSE IF x[k] > y[k] THEN TRUE
    ELSE IF x[k] < y[k] THEN FALSE
    ELSE Gt64From(x, y, k - 1)

\* x > y on uint64
Gt64(x, y) == Gt64From(x, y, 8)

RECURSIVE Carry(_, _, _)
\* carry into byte k (1..9) of x + y
Carry(x, y, k) ==
    IF k = 1 THEN 0 ELSE (x[k - 1] + y[k - 1] + Carry(x, y, k - 1)) \div 256

\* x + y on uint64 (wraps modulo 2^64)
Add64(x, y) == [k \in 1..8 |-> (x[k] + y[k] + Carry(x, y, k)) % 256]

---------------------------------------------------------------------------
(* flows.go: Endpoint *)

ZeroBuf == [i \in 1..MaxEndpointSize |-> 0]

CopyInto_Shifted(raw) ==
    [i \in 1..MaxEndpointSize |-> IF i + 1 <= Len(raw) THEN raw[i + 1] ELSE 0]

\* copy(dst[:], raw) into a zeroed [MaxEndpointSize]byte
CopyInto(raw) ==
    [i \in 1..MaxEndpointSize |-> IF i <= Len(raw) THEN raw[i] ELSE 0]

\* the Go struct Endpoint{typ, len, raw}
Endpoint(typ, len, raw) == [typ |-> typ, len |-> len, raw |-> raw]

EndpointType(e) == e.typ

\* a.raw[:a.len]
Raw(e) == SubSeq(e.raw, 1, e.len)

NewEndpointPanics_OffByOne(typ, raw) == Len(raw) > MaxEndpointSize + 1

\* NewEndpoint panics when len(raw) > MaxEndpointSize
NewEndpointPanics(typ, raw) == Len(raw) > MaxEndpointSize

NewEndpoint_NoLen(typ, raw) == Endpoint(typ, 0, CopyInto(raw))

\* the value NewEndpoint returns when it does not panic
NewEndpoint(typ, raw) == Endpoint(typ, Len(raw), CopyInto(raw))

RECURSIVE CompareFrom(_, _, _)
\* bytes.Compare on the bytes from position k on
CompareFrom(x, y, k) ==
    IF k > Len(x) /\ k > Len(y) THEN 0
    ELSE IF k > Len(x) THEN -1
    ELSE IF k > Len(y) THEN 1
    ELSE IF x[k] < y[k] THEN -1
    ELSE IF x[k] > y[k] THEN 1
    ELSE CompareFrom(x, y, k + 1)

\* bytes.Compare: -1, 0 or 1 as x sorts before, with or after y
Compare(x, y) == CompareFrom(x, y, 1)

LessThan_NonStrict(x, y) ==
    x.typ < y.typ \/ (x.typ = y.typ /\ Compare(Raw(x), Raw(y)) <= 0)

LessThan(x, y) ==
    x.typ < y.typ \/ (x.typ = y.typ /\ Compare(Raw(x), Raw(y)) < 0)

RECURSIVE EndpointHashLoop(_, _, _)
EndpointHashLoop(e, i, hv) ==
    IF i >= e.len THEN hv
    ELSE EndpointHashLoop(e, i + 1, XorLane(hv, i % 8, e.raw[i + 1]))

EndpointFastHash_SkipFirst(e) == EndpointHashLoop(e, 1, Zero64)

\* Endpoint.FastHash
EndpointFastHash(e) == EndpointHashLoop(e, 0, Zero64)

---------------------------------------------------------------------------
(* flows.go: Flow *)

\* the Go struct Flow{typ, slen, dlen, src, dst}
Flow(typ, slen, dlen, src, dst) ==
    [typ |-> typ, slen |-> slen, dlen |-> dlen, src |-> src, dst |-> dst]

\* the zero value of Flow (what a bare "return" yields for the unnamed result)
ZeroFlow == Flow(0, 0, 0, ZeroBuf, ZeroBuf)

FlowFromEndpoints_NoCheck(src, dst) ==
    [flow |-> Flow(src.typ, src.len, dst.len, src.raw, dst.raw), err |-> "nil"]

\* FlowFromEndpoints returns (Flow, error)
FlowFromEndpoints(src, dst) ==
    IF src.typ # dst.typ
    THEN [flow |-> ZeroFlow, err |-> "Mismatched endpoint types"]
    ELSE [flow |-> Flow(src.typ, src.len, dst.len, src.raw, dst.raw),
          err |-> "nil"]

NewFlowPanics_SrcOnly(t, src, dst) == Len(src) > MaxEndpointSize

\* NewFlow panics when either address is longer than MaxEndpointSize
NewFlowPanics(t, src, dst) ==
    Len(src) > MaxEndpointSize \/ Len(dst) > MaxEndpointSize

NewFlow_DstLenFromSrc(t, src, dst) ==
    Flow(t, Len(src), Len(src), CopyInto(src), CopyInto(dst))

\* the value NewFlow returns when it does not panic
NewFlow(t, src, dst) ==
    Flow(t, Len(src), Len(dst), CopyInto(src), CopyInto(dst))

FlowEndpointType(fl) == fl.typ

\* Flow.Endpoints returns (src, dst)
Endpoints(fl) ==
    <<Endpoint(fl.typ, fl.slen, fl.src), Endpoint(fl.typ, fl.dlen, fl.dst)>>

Src(fl) == Endpoints(fl)[1]

Dst(fl) == Endpoints(fl)[2]

Reverse_KeepLens(fl) == Flow(fl.typ, fl.slen, fl.dlen, fl.dst, fl.src)

Reverse(fl) == Flow(fl.typ, fl.dlen, fl.slen, fl.dst, fl.src)

RECURSIVE FlowHashLoop(_, _, _, _)
\* the loop of Flow.FastHash: both accumulators are driven by f.slen
FlowHashLoop(fl, i, av, bv) ==
    IF i >= fl.slen THEN <<av, bv>>
    ELSE FlowHashLoop(fl, i + 1,
                      XorLane(av, 2 * (i % 4), fl.src[fl.slen - 1 - i + 1]),
                      XorLane(bv, 2 * (i % 4), fl.dst[fl.slen - 1 - i + 1]))

\* Flow.FastHash
FastHash(fl) ==
    LET ab == FlowHashLoop(fl, 0, Zero64, Zero64)
        av == ab[1]
        bv == ab[2]
    IN  IF Gt64(av, bv) THEN Add64(av, Shl8(bv)) ELSE Add64(bv, Shl8(av))

\* var InvalidEndpoint = NewEndpoint(EndpointInvalid, nil)
InvalidEndpoint == NewEndpoint(0, <<>>)

\* var InvalidFlow = NewFlow(EndpointInvalid, nil, nil)
InvalidFlow == NewFlow(0, <<>>, <<>>)

---------------------------------------------------------------------------
(* flows.go: the EndpointType registry *)

\* the numbers RegisterEndpointType is called with (0 is EndpointInvalid's)
RegTags == {0, 1, 2, 1000}

\* EndpointTypeMetadata values: a name and a formatter (nil or a function,
\* told apart by a label)
Metas == [Name : {"invalid", "MAC"}, Formatter : {"nil", "fmt"}]

\* the metadata EndpointInvalid is registered with
InvalidMeta == [Name |-> "invalid", Formatter |-> "fmt"]

\* The map is a function on RegTags whose value says whether the key is
\* present (the "ok" of a Go map lookup) and, if so, the metadata.
NoEntry == [ok |-> FALSE, meta |-> [Name |-> "", Formatter |-> "nil"]]

Entry(meta) == [ok |-> TRUE, meta |-> meta]

\* var endpointTypes = map[EndpointType]EndpointTypeMetadata{}
EmptyRegistry == [t \in RegTags |-> NoEntry]

RegisterEndpointTypePanics_Never(reg, num) == FALSE

\* RegisterEndpointType panics when "_, ok := endpointTypes[t]; ok"
RegisterEndpointTypePanics(reg, num) == reg[num].ok

\* the map after "endpointTypes[t] = meta"
RegisterEndpointType(reg, num, meta) == [reg EXCEPT ![num] = Entry(meta)]

\* the map once the package is initialised:
\* var EndpointInvalid = RegisterEndpointType(0, EndpointTypeMetadata{...})
StartRegistry == RegisterEndpointType(EmptyRegistry, 0, InvalidMeta)

NoRegCall == [num |-> 0, meta |-> InvalidMeta, panicked |-> FALSE]

---------------------------------------------------------------------------
(* layers/icmp6msg.go: the ICMPv6 neighbor-discovery layers *)

LayerKinds ==
    {"RouterSolicitation", "RouterAdvertisement", "NeighborSolicitation",
     "NeighborAdvertisement", "Redirect"}

\* a Go range data[lo:hi] lies within a slice of length n (an index
\* data[i] is the range [i, i+1)); anything else is a run-time panic
InBounds(r, n) == 0 <= r[1] /\ r[1] <= r[2] /\ r[2] <= n

HeaderLen_RouterSolicitationSize(kind) == 4

\* the length below which each layer's DecodeFromBytes reports truncation
HeaderLen(kind) ==
    CASE kind = "RouterSolicitation" -> 4
      [] kind = "RouterAdvertisement" -> 12
      [] kind = "NeighborSolicitation" -> 20
      [] kind = "NeighborAdvertisement" -> 20
      [] kind = "Redirect" -> 36

\* the N of the final "data[N:]" handed to Options.DecodeFromBytes
OptionsOffset(kind) ==
    CASE kind = "RouterSolicitation" -> 4
      [] kind = "RouterAdvertisement" -> 12
      [] kind = "NeighborSolicitation" -> 20
      [] kind = "NeighborAdvertisement" -> 20
      [] kind = "Redirect" -> 36

\* the ranges of data each layer's DecodeFromBytes evaluates once its length
\* check has passed, n being len(data)
HeaderSlices(kind, n) ==
    CASE kind = "RouterSolicitation" -> {<<OptionsOffset(kind), n>>}
      [] kind = "RouterAdvertisement" ->
            {<<0, 1>>, <<1, 2>>, <<2, 4>>, <<4, 8>>, <<8, 12>>,
             <<OptionsOffset(kind), n>>}
      [] kind = "NeighborSolicitation" ->
            {<<4, 20>>, <<OptionsOffset(kind), n>>}
      [] kind = "NeighborAdvertisement" ->
            {<<0, 1>>, <<4, 20>>, <<OptionsOffset(kind), n>>}
      [] kind = "Redirect" ->
            {<<4, 20>>, <<20, 36>>, <<OptionsOffset(kind), n>>}

\* a freshly allocated layer struct: every field has its zero value.  The
\* uint32 fields are kept as their 4 bytes, most significant first.
FreshLayer ==
    [Contents |-> <<>>, Payload |-> <<>>,
     HopLimit |-> 0, Flags |-> 0, RouterLifetime |-> 0,
     ReachableTime |-> <<0, 0, 0, 0>>, RetransTimer |-> <<0, 0, 0, 0>>,
     TargetAddress |-> <<>>, DestinationAddress |-> <<>>,
     Options |-> <<>>]

TruncateOptions_Keep(o) == o

\* i.Options[:0]
TruncateOptions(o) == SubSeq(o, 1, 0)

\* the field assignments of each DecodeFromBytes, followed by
\* "i.Options = i.Options[:0]"
DecodeFields(kind, l, data) ==
    LET g ==
        CASE kind = "RouterSolicitation" -> l
          [] kind = "RouterAdvertisement" ->
                [l EXCEPT !.HopLimit = data[1],
                          !.Flags = data[2],
                          !.RouterLifetime = 256 * data[3] + data[4],
                          !.ReachableTime = SubSeq(data, 5, 8),
                          !.RetransTimer = SubSeq(data, 9, 12)]
          [] kind = "NeighborSolicitation" ->
                [l EXCEPT !.TargetAddress = SubSeq(data, 5, 20)]
          [] kind = "NeighborAdvertisement" ->
                [l EXCEPT !.Flags = data[1],
                          !.TargetAddress = SubSeq(data, 5, 20)]
          [] kind = "Redirect" ->
                [l EXCEPT !.TargetAddress = SubSeq(data, 5, 20),
                          !.DestinationAddress = SubSeq(data, 21, 36)]
    IN  [g EXCEPT !.Options = TruncateOptions(g.Options)]

NoOption == [Type |-> 0, Length |-> 0, Data |-> <<>>]

\* Length: int(data[1]) * 8
OptionLength(d) == d[2] * 8

OptionTooLong_Never(d, length) == FALSE

\* len(data) < int(o.Length)
OptionTooLong(d, length) == Len(d) < length

OptionData_WithHeader(d, length) == SubSeq(d, 1, length)

\* o.Data = data[2:o.Length]
OptionData(d, length) == SubSeq(d, 3, length)

ChopOption_Nothing(d, length) == d

\* data = data[o.Length:]
ChopOption(d, length) == SubSeq(d, length + 1, Len(d))

\* One pass of ICMPv6Options.DecodeFromBytes through "for len(data) > 0 {..}"
\* on the local data d: "nil" (loop ended, return nil), "truncated"
\* (SetTruncated and an error), "panic" (a slice expression out of range) or
\* "next" (one option appended, data chopped).  slices are the ranges of d
\* evaluated.
OptionsLoopStep(d) ==
    IF Len(d) = 0
    THEN [outcome |-> "nil", err |-> "nil", opt |-> NoOption, rest |-> d,
          slices |-> {}]
    ELSE IF Len(d) < 2
    THEN [outcome |-> "truncated",
          err |-> "ICMP layer less then 2 bytes for ICMPv6 message option",
          opt |-> NoOption, rest |-> d, slices |-> {}]
    ELSE LET length == OptionLength(d)
             hdr == {<<0, 1>>, <<1, 2>>}
         IN  IF OptionTooLong(d, length)
             THEN [outcome |-> "truncated",
                   err |-> "ICMP layer too short for ICMPv6 message option",
                   opt |-> NoOption, rest |-> d, slices |-> hdr]
             ELSE IF ~InBounds(<<2, length>>, Len(d))
             THEN [outcome |-> "panic",
                   err |-> "panic: runtime error: slice bounds out of range",
                   opt |-> NoOption, rest |-> d,
                   slices |-> hdr \cup {<<2, length>>}]
             ELSE [outcome |-> "next", err |-> "nil",
                   opt |-> [Type |-> d[1], Length |-> length,
                            Data |-> OptionData(d, length)],
                   rest |-> ChopOption(d, length),
                   slices |-> hdr \cup {<<2, length>>, <<length, Len(d)>>}]

decodeICMPv6Return_DropError(e) == "nil"

\* decodeICMPv6RouterSolicitation and its four siblings return whatever
\* decodingLayerDecoder returned
decodeICMPv6Return(e) == e

RECURSIVE BitAnd(_, _)
\* x & y on unsigned values
BitAnd(x, y) ==
    IF x = 0 \/ y = 0 THEN 0
    ELSE (x % 2) * (y % 2) + 2 * BitAnd(x \div 2, y \div 2)

\* return i.Flags&0x80 != 1
ManagedAddressConfig(l) == BitAnd(l.Flags, 128) /= 1

\* return i.Flags&0x40 != 1
OtherConfig(l) == BitAnd(l.Flags, 64) /= 1

\* return i.Flags&0x80 != 0
Router(l) == BitAnd(l.Flags, 128) /= 0

\* return i.Flags&0x40 != 0
Solicited(l) == BitAnd(l.Flags, 64) /= 0

\* return i.Flags&0x20 != 0
Override(l) == BitAnd(l.Flags, 32) /= 0

---------------------------------------------------------------------------
(* The DNS layer: message format, serialization with FixLengths, and the   *)
(* decoder with its name decompression.  The DNS implementation is not     *)
(* part of the sources at hand (only layers/dns_test.go is), so this part  *)
(* follows the design document (sections 4.4, 6, 8) and the fields and     *)
(* messages the tests name.                                                *)

\* a 16-bit value as two octets, most significant first
U16(n) == <<n \div 256, n % 256>>

\* the first and second flags octet of the header
FlagsHi(d) ==
    (IF d.QR THEN 128 ELSE 0) + 8 * d.OpCode + (IF d.AA THEN 4 ELSE 0)
        + (IF d.TC THEN 2 ELSE 0) + (IF d.RD THEN 1 ELSE 0)

FlagsLo(d) == (IF d.RA THEN 128 ELSE 0) + 16 * d.Z + d.ResponseCode

\* the octet that separates the labels of a name: '.'
Dot == 46

RECURSIVE SplitName(_, _, _)
\* the labels of name[k..], cur being the label begun before position k
SplitName(name, k, cur) ==
    IF k > Len(name) THEN <<cur>>
    ELSE IF name[k] = Dot THEN <<cur>> \o SplitName(name, k + 1, <<>>)
    ELSE SplitName(name, k + 1, Append(cur, name[k]))

\* the labels of a name; the empty name has none
Labels(name) == IF name = <<>> THEN <<>> ELSE SplitName(name, 1, <<>>)

RECURSIVE EncodeLabels(_, _)
EncodeLabels(ls, k) ==
    IF k > Len(ls) THEN <<0>>
    ELSE <<Len(ls[k])>> \o ls[k] \o EncodeLabels(ls, k + 1)

EncodeName_NoTerminator(name) ==
    LET e == EncodeLabels(Labels(name), 1) IN SubSeq(e, 1, Len(e) - 1)

\* a name on the wire: each label behind its length octet, then a 0 octet
EncodeName(name) == EncodeLabels(Labels(name), 1)

RECURSIVE JoinLabels(_, _)
\* the labels from the k-th on, joined by dots
JoinLabels(ls, k) ==
    IF k > Len(ls) THEN <<>>
    ELSE IF k = Len(ls) THEN ls[k]
    ELSE ls[k] \o <<Dot>> \o JoinLabels(ls, k + 1)

EncodeQuestion(q) == EncodeName(q.Name) \o U16(q.Type) \o U16(q.Class)

EncodeRecord(r) ==
    EncodeName(r.Name) \o U16(r.Type) \o U16(r.Class) \o r.TTL
        \o U16(r.DataLength) \o r.IP

RECURSIVE Concat(_, _)
\* the sequences from the k-th on, one after the other
Concat(ss, k) == IF k > Len(ss) THEN <<>> ELSE ss[k] \o Concat(ss, k + 1)

\* what the FixLengths option does to the layer being serialized: the count
\* fields become the lengths of the lists, each record's DataLength the
\* length of its data
FixLengths(d) ==
    [d EXCEPT !.QDCount = Len(d.Questions),
              !.ANCount = Len(d.Answers),
              !.NSCount = 0,
              !.ARCount = 0,
              !.Answers =
                  [k \in 1..Len(d.Answers) |->
                      [d.Answers[k] EXCEPT !.DataLength = Len(d.Answers[k].IP)]]]

\* the bytes of a DNS layer: 12-octet header, questions, answers
SerializeDNS(d) ==
    U16(d.ID) \o <<FlagsHi(d), FlagsLo(d)>> \o U16(d.QDCount) \o U16(d.ANCount)
        \o U16(d.NSCount) \o U16(d.ARCount)
        \o Concat([k \in 1..Len(d.Questions) |-> EncodeQuestion(d.Questions[k])], 1)
        \o Concat([k \in 1..Len(d.Answers) |-> EncodeRecord(d.Answers[k])], 1)

\* octets of the fixed header
DNSHeaderLen == 12

\* the header fields read from the first 12 octets of w
DecodeDNSHeader(w) ==
    [ID |-> 256 * w[1] + w[2],
     QR |-> w[3] >= 128,
     OpCode |-> (w[3] \div 8) % 16,
     AA |-> (w[3] \div 4) % 2 = 1,
     TC |-> (w[3] \div 2) % 2 = 1,
     RD |-> w[3] % 2 = 1,
     RA |-> w[4] >= 128,
     Z |-> (w[4] \div 16) % 8,
     ResponseCode |-> w[4] % 16,
     QDCount |-> 256 * w[5] + w[6],
     ANCount |-> 256 * w[7] + w[8],
     NSCount |-> 256 * w[9] + w[10],
     ARCount |-> 256 * w[11] + w[12],
     Questions |-> <<>>, Answers |-> <<>>]

\* the name decoder set at offset at: no pointer may reach at or beyond it
StartName(at) ==
    [index |-> at, bound |-> at, labels |-> <<>>, resume |-> 0, hi |-> at]

Max(x, y) == IF x > y THEN x ELSE y

\* the offset a compression pointer at n.index points to
PointerTarget(w, n) == 256 * (w[n.index + 1] - 192) + w[n.index + 2]

PointerRejected_OnlyBeyond(target, bound, len) == target >= len

\* a pointer is followed only if it stays inside the message and is strictly
\* below every offset this name has visited so far
PointerRejected(target, bound, len) == target >= len \/ target >= bound

\* One step of the name decoder on message w: it reads the octet at the
\* cursor and ends the name ("end"), takes a label ("label"), follows a
\* pointer ("jump") or fails ("error").
NameStep(w, n) ==
    IF n.index >= Len(w)
    THEN [outcome |-> "error", err |-> "dns name offset too high", nd |-> n]
    ELSE LET oct == w[n.index + 1]
         IN  IF oct = 0
             THEN [outcome |-> "end", err |-> "nil",
                   nd |-> [n EXCEPT
                       !.index = IF n.resume # 0 THEN n.resume
                                 ELSE n.index + 1,
                       !.hi = Max(n.hi, n.index + 1)]]
             ELSE IF oct >= 192
             THEN IF n.index + 2 > Len(w)
                  THEN [outcome |-> "error",
                        err |-> "dns offset pointer too high", nd |-> n]
                  ELSE IF PointerTarget(w, n) >= Len(w)
                  THEN [outcome |-> "error",
                        err |-> "dns offset pointer too high",
                        nd |-> [n EXCEPT !.hi = Max(n.hi, n.index + 2)]]
                  ELSE IF PointerRejected(PointerTarget(w, n), n.bound, Len(w))
                  THEN [outcome |-> "error",
                        err |-> "dns name uncomputable: invalid index",
                        nd |-> [n EXCEPT !.hi = Max(n.hi, n.index + 2)]]
                  ELSE [outcome |-> "jump", err |-> "nil",
                        nd |-> [n EXCEPT
                            !.index = PointerTarget(w, n),
                            !.bound = PointerTarget(w, n),
                            !.resume = IF n.resume # 0 THEN n.resume
                                       ELSE n.index + 2,
                            !.hi = Max(n.hi, n.index + 2)]]
             ELSE IF oct >= 64
             THEN [outcome |-> "error",
                   err |-> "dns name uncomputable: label type not supported",
                   nd |-> n]
             ELSE IF n.index + 1 + oct > Len(w)
             THEN [outcome |-> "error",
                   err |-> "dns name uncomputable: invalid index", nd |-> n]
             ELSE [outcome |-> "label", err |-> "nil",
                   nd |-> [n EXCEPT
                       !.index = n.index + 1 + oct,
                       !.labels = Append(n.labels,
                                         SubSeq(w, n.index + 2, n.index + 1 + oct)),
                       !.hi = Max(n.hi, n.index + 1 + oct)]]

\* octets that follow the name of a question (type, class) and the name of
\* a resource record (type, class, TTL, data length)
QuestionTailLen == 4

RecordTailLen == 10

\* where decoding goes once a question or a record has been appended to d
AfterEntry(d) ==
    IF Len(d.Questions) < d.QDCount THEN "qname"
    ELSE IF Len(d.Answers) < d.ANCount THEN "aname"
    ELSE "dnsDone"

---------------------------------------------------------------------------
(* Inputs of the decoders *)

\* most options in an input block
MaxOpts == 2

\* most layers decoded before the ICMPv6 message layer of a packet
MaxOuter == 2

\* option headers (type, length in units of 8 bytes) and the bytes each
\* chunk occupies in the input: well-formed options of 8 and 16 bytes, a
\* zero length, and declared lengths larger than what follows
OptChunks ==
    {[type |-> 1, units |-> 1, wire |-> 8],
     [type |-> 5, units |-> 1, wire |-> 8],
     [type |-> 4, units |-> 2, wire |-> 16],
     [type |-> 2, units |-> 0, wire |-> 8],
     [type |-> 3, units |-> 4, wire |-> 8],
     [type |-> 3, units |-> 255, wire |-> 8]}

\* the j-th byte after a chunk's two header bytes
Fill(j) == (37 * j + 11) % 256

Chunk(c) == <<c.type, c.units>> \o [j \in 1..(c.wire - 2) |-> Fill(j)]

RECURSIVE Blocks(_)
\* the concatenations of at most n chunks
Blocks(n) ==
    IF n = 0 THEN {<<>>}
    ELSE LET B == Blocks(n - 1)
         IN  B \cup {x \o Chunk(c) : x \in B, c \in OptChunks}

\* RFC 4861: the octets of each message that precede its options (after the
\* ICMPv6 type, code and checksum)
MessageHeaderLen(kind) ==
    CASE kind = "RouterSolicitation" -> 4
      [] kind = "RouterAdvertisement" -> 12
      [] kind = "NeighborSolicitation" -> 20
      [] kind = "NeighborAdvertisement" -> 20
      [] kind = "Redirect" -> 36

\* the position (from 1) of the flags octet in a message, 0 if it has none
FlagsPos(kind) ==
    CASE kind = "RouterAdvertisement" -> 2
      [] kind = "NeighborAdvertisement" -> 1
      [] OTHER -> 0

FlagVals == {0, 32, 64, 128, 224}

\* a message header: the flags octet fb in its place, every other octet a
\* value that tells its position
MessageHeader(kind, fb) ==
    [i \in 1..MessageHeaderLen(kind) |->
        IF i = FlagsPos(kind) THEN fb ELSE (7 * i) % 256]

\* the flags octets tried for a kind of message
FlagChoices(kind) == IF FlagsPos(kind) = 0 THEN {0} ELSE FlagVals

\* most questions and most answers in a constructed DNS layer
MaxQuestions == 2

MaxAnswers == 2

\* the names "e1.c" and "w.e2.c"
NameOne == <<101, 49, Dot, 99>>

NameTwo == <<119, Dot, 101, 50, Dot, 99>>

\* questions and resource records (types A = 1 and AAAA = 28, class IN = 1,
\* TTL 1024) a caller puts into a layer; DataLength is left at zero
QuestionChoices ==
    {[Name |-> NameOne, Type |-> 1, Class |-> 1],
     [Name |-> NameTwo, Type |-> 28, Class |-> 1]}

RecordChoices ==
    {[Name |-> NameOne, Type |-> 1, Class |-> 1, TTL |-> <<0, 0, 4, 0>>,
      DataLength |-> 0, IP |-> <<1, 2, 3, 4>>],
     [Name |-> NameTwo, Type |-> 28, Class |-> 1, TTL |-> <<0, 0, 4, 0>>,
      DataLength |-> 0,
      IP |-> <<5, 6, 7, 8, 1, 2, 3, 4, 5, 6, 7, 8, 1, 2, 3, 4>>]}

RECURSIVE SeqsUpTo(_, _)
\* the sequences of at most n elements of S
SeqsUpTo(S, n) ==
    IF n = 0 THEN {<<>>}
    ELSE LET B == SeqsUpTo(S, n - 1)
         IN  B \cup {Append(x, e) : x \in B, e \in S}

\* the count fields a caller leaves in a layer before serializing it
CountChoices == {0, 3}

\* messages made by hand: a header, the question "a" at offset 12, then a
\* second name at offset 19 followed by the rest of a question or a record
CraftHeader(qd, an) ==
    U16(1234) \o <<1, 0>> \o U16(qd) \o U16(an) \o <<0, 0, 0, 0>>

FirstQuestion == <<1, 97, 0>> \o U16(1) \o U16(1)

SecondNameAt == DNSHeaderLen + Len(FirstQuestion)

\* second names: plain, compressed by a pointer back to offset 12 or 14, a
\* pointer to itself, back to the start of its own name, forward, beyond
\* the message, into the middle of a label, a label longer than the
\* message, and a label type that is not in use
CraftedNames ==
    {<<1, 98, 0>>,
     <<192, 12>>,
     <<1, 98, 192, 12>>,
     <<192, 14>>,
     <<192, SecondNameAt>>,
     <<1, 98, 192, SecondNameAt>>,
     <<1, 98, 192, SecondNameAt + 2>>,
     <<192, SecondNameAt + 3>>,
     <<192, 200>>,
     <<193, 0>>,
     <<192, 13>>,
     <<63, 97, 0>>,
     <<128, 0>>}

CraftedCounts == {<<2, 0>>, <<3, 0>>, <<1, 1>>}

CraftedTail(an) ==
    IF an = 0 THEN U16(1) \o U16(1)
    ELSE U16(1) \o U16(1) \o <<0, 0, 4, 0>> \o U16(4) \o <<1, 2, 3, 4>>

\* most DecodeFromBytes calls made on one layer object
MaxDecodes == 3

\* the option chunks of the inputs a layer object is reused on: well-formed
\* options of 8 and 16 bytes, a zero length, a declared length past the end
ReuseChunks ==
    {c \in OptChunks : <<c.type, c.units>> \in {<<1, 1>>, <<4, 2>>, <<2, 0>>, <<3, 4>>}}

ReuseBlocks ==
    {<<>>} \cup {Chunk(c) : c \in ReuseChunks}
           \cup {Chunk(c) \o Chunk(d) : c, d \in ReuseChunks}

\* the lengths a message is cut to: too short for its header, or any
\* length from its header on
ReuseCuts(kind, msg) ==
    {0, MessageHeaderLen(kind) - 1} \cup MessageHeaderLen(kind)..Len(msg)

\* how a decode call is made: directly on a fresh layer, or by the packet's
\* decoder after n layers have been decoded
Vias ==
    {[via |-> "direct", outer |-> 0]}
    \cup {[via |-> "packet", outer |-> n] : n \in 0..MaxOuter}

\* the byte slices a caller hands to SerializeTo
SerializeBuffers == {<<>>, <<0, 0, 0, 0>>}

NoCall == [kind |-> "none", data |-> <<>>, via |-> "direct", outer |-> 0]

NoInput == [typ |-> 0, raw |-> <<>>]

\* no flag accessor called yet
NoAccessors ==
    [ManagedAddressConfig |-> FALSE, OtherConfig |-> FALSE,
     Router |-> FALSE, Solicited |-> FALSE, Override |-> FALSE]

\* a DNS layer with every field at its zero value
NoDNS ==
    [ID |-> 0, QR |-> FALSE, OpCode |-> 0, AA |-> FALSE, TC |-> FALSE,
     RD |-> FALSE, RA |-> FALSE, Z |-> 0, ResponseCode |-> 0,
     QDCount |-> 0, ANCount |-> 0, NSCount |-> 0, ARCount |-> 0,
     Questions |-> <<>>, Answers |-> <<>>]

\* the name decoder at rest
NoName == [index |-> 0, bound |-> 0, labels |-> <<>>, resume |-> 0, hi |-> 0]

NoOpts == [FixLengths |-> FALSE]

---------------------------------------------------------------------------
(* What the variables of one part hold while another part runs *)

FlowsIdle ==
    /\ in1 = NoInput
    /\ in2 = NoInput
    /\ a = InvalidEndpoint
    /\ b = InvalidEndpoint
    /\ f = InvalidFlow
    /\ f0 = InvalidFlow
    /\ h0 = Zero64
    /\ h = Zero64
    /\ g2 = InvalidFlow
    /\ hg2 = Zero64

DecodeIdle ==
    /\ call = NoCall
    /\ lyr = FreshLayer
    /\ rest = <<>>
    /\ trunc = FALSE
    /\ reads = {}
    /\ layers = <<>>
    /\ sbuf = <<>>

RegistryIdle ==
    /\ endpointTypes = StartRegistry
    /\ regCall = NoRegCall

DNSIdle ==
    /\ dns = NoDNS
    /\ wire = <<>>
    /\ dns2 = NoDNS
    /\ nd = NoName
    /\ sopts = NoOpts

UseIdle ==
    /\ ndecoded = 0
    /\ before = <<>>
    /\ acc = NoAccessors

---------------------------------------------------------------------------
(* A caller of flows.go: it builds two endpoints and a flow from them (or  *)
(* a flow from the raw addresses), reverses the flow, hashes it and takes  *)
(* its endpoints back out.                                                 *)

Init ==
    /\ pc = "start"
    /\ in1 \in Inputs
    /\ in2 \in Inputs
    /\ a = InvalidEndpoint
    /\ b = InvalidEndpoint
    /\ f = InvalidFlow
    /\ f0 = InvalidFlow
    /\ err = "nil"
    /\ h0 = Zero64
    /\ h = Zero64
    /\ g2 = InvalidFlow
    /\ hg2 = Zero64
    /\ call = NoCall
    /\ lyr = FreshLayer
    /\ rest = <<>>
    /\ trunc = FALSE
    /\ reads = {}
    /\ layers = <<>>
    /\ sbuf = <<>>
    /\ RegistryIdle
    /\ DNSIdle
    /\ UseIdle

\* a = NewEndpoint(in1.typ, in1.raw)
CallNewEndpointA ==
    /\ pc = "start"
    /\ IF NewEndpointPanics(in1.typ, in1.raw)
       THEN /\ pc' = "panicA"
            /\ err' = "panic: raw byte length greater than MaxEndpointSize"
            /\ a' = a
       ELSE /\ pc' = "haveA"
            /\ err' = "nil"
            /\ a' = NewEndpoint(in1.typ, in1.raw)
    /\ UNCHANGED <<in1, in2, b, f, f0, h0, h, g2, hg2, decVars, regVars, dnsVars, useVars>>

\* b = NewEndpoint(in2.typ, in2.raw)
CallNewEndpointB ==
    /\ pc = "haveA"
    /\ IF NewEndpointPanics(in2.typ, in2.raw)
       THEN /\ pc' = "panicB"
            /\ err' = "panic: raw byte length greater than MaxEndpointSize"
            /\ b' = b
       ELSE /\ pc' = "haveAB"
            /\ err' = "nil"
            /\ b' = NewEndpoint(in2.typ, in2.raw)
    /\ UNCHANGED <<in1, in2, a, f, f0, h0, h, g2, hg2, decVars, regVars, dnsVars, useVars>>

\* f, err = FlowFromEndpoints(a, b)
CallFlowFromEndpoints ==
    /\ pc = "haveAB"
    /\ LET r == FlowFromEndpoints(a, b)
       IN  /\ f' = r.flow
           /\ f0' = r.flow
           /\ err' = r.err
           /\ pc' = IF r.err = "nil" THEN "flow" ELSE "mismatch"
    /\ UNCHANGED <<in1, in2, a, b, h0, h, g2, hg2, decVars, regVars, dnsVars, useVars>>

\* f = NewFlow(in1.typ, in1.raw, in2.raw)
CallNewFlow ==
    /\ pc = "start"
    /\ IF NewFlowPanics(in1.typ, in1.raw, in2.raw)
       THEN /\ pc' = "panicFlow"
            /\ err' = "panic: flow raw byte length greater than MaxEndpointSize"
            /\ UNCHANGED <<f, f0>>
       ELSE /\ pc' = "newflow"
            /\ err' = "nil"
            /\ f' = NewFlow(in1.typ, in1.raw, in2.raw)
            /\ f0' = f'
    /\ UNCHANGED <<in1, in2, a, b, h0, h, g2, hg2, decVars, regVars, dnsVars, useVars>>

\* f = f.Reverse(), once and then once more
CallReverse ==
    /\ pc \in {"flow", "newflow", "rev1"}
    /\ f' = Reverse(f)
    /\ pc' = IF pc = "rev1" THEN "rev2" ELSE "rev1"
    /\ UNCHANGED <<in1, in2, a, b, f0, err, h0, h, g2, hg2, decVars, regVars, dnsVars, useVars>>

\* h0 = f0.FastHash(); h = f.FastHash() on the reversed flow
CallFastHash ==
    /\ pc = "rev1"
    /\ h0' = FastHash(f0)
    /\ h' = FastHash(f)
    /\ pc' = "hashed"
    /\ UNCHANGED <<in1, in2, a, b, f, f0, err, g2, hg2, decVars, regVars, dnsVars, useVars>>

\* h0 = a.FastHash(); h = b.FastHash()
CallEndpointFastHash ==
    /\ pc = "haveAB"
    /\ h0' = EndpointFastHash(a)
    /\ h' = EndpointFastHash(b)
    /\ pc' = "ehashed"
    /\ UNCHANGED <<in1, in2, a, b, f, f0, err, g2, hg2, decVars, regVars, dnsVars, useVars>>

\* g2 = NewFlow(f0's type, s, d); hg2 = g2.FastHash(), for a flow f0 whose
\* addresses are as short as those of the second flow
CallFastHashOther ==
    /\ pc = "hashed"
    /\ f0.slen <= MaxOtherLen
    /\ f0.dlen <= MaxOtherLen
    /\ \E s \in OtherRaws, d \in OtherRaws :
          /\ g2' = NewFlow(FlowEndpointType(f0), s, d)
          /\ hg2' = FastHash(g2')
    /\ pc' = "ghashed"
    /\ UNCHANGED <<in1, in2, a, b, f, f0, err, h0, h, decVars, regVars, dnsVars, useVars>>

\* a, b = f.Endpoints()
CallEndpoints ==
    /\ pc \in {"newflow", "rev2", "hashed"}
    /\ a' = Src(f)
    /\ b' = Dst(f)
    /\ pc' = "ends"
    /\ UNCHANGED <<in1, in2, f, f0, err, h0, h, g2, hg2, decVars, regVars, dnsVars, useVars>>

Next ==
    \/ CallNewEndpointA
    \/ CallNewEndpointB
    \/ CallFlowFromEndpoints
    \/ CallNewFlow
    \/ CallReverse
    \/ CallFastHash
    \/ CallEndpointFastHash
    \/ CallFastHashOther
    \/ CallEndpoints

Spec == Init /\ [][Next]_vars

---------------------------------------------------------------------------
(* The registry: the package is initialised, which registers               *)
(* EndpointInvalid, and then callers register endpoint types; a panic ends *)
(* the process.                                                            *)

InitRegistry ==
    /\ pc = "pkginit"
    /\ err = "nil"
    /\ endpointTypes = EmptyRegistry
    /\ regCall = NoRegCall
    /\ FlowsIdle
    /\ DecodeIdle
    /\ DNSIdle
    /\ UseIdle

\* var EndpointInvalid = RegisterEndpointType(0, EndpointTypeMetadata{...})
PackageInit ==
    /\ pc = "pkginit"
    /\ IF RegisterEndpointTypePanics(endpointTypes, 0)
       THEN /\ pc' = "regPanic"
            /\ err' = "panic: Endpoint type number already in use"
            /\ regCall' = [num |-> 0, meta |-> InvalidMeta, panicked |-> TRUE]
            /\ UNCHANGED endpointTypes
       ELSE /\ pc' = "ready"
            /\ err' = "nil"
            /\ regCall' = [num |-> 0, meta |-> InvalidMeta, panicked |-> FALSE]
            /\ endpointTypes' =
                  RegisterEndpointType(endpointTypes, 0, InvalidMeta)
    /\ UNCHANGED <<flowVars, decVars, dnsVars, useVars>>

\* RegisterEndpointType(num, meta), called by any package
CallRegisterEndpointType ==
    /\ pc = "ready"
    /\ \E num \in RegTags, meta \in Metas :
          IF RegisterEndpointTypePanics(endpointTypes, num)
          THEN /\ pc' = "regPanic"
               /\ err' = "panic: Endpoint type number already in use"
               /\ regCall' = [num |-> num, meta |-> meta, panicked |-> TRUE]
               /\ UNCHANGED endpointTypes
          ELSE /\ pc' = "ready"
               /\ err' = "nil"
               /\ regCall' = [num |-> num, meta |-> meta, panicked |-> FALSE]
               /\ endpointTypes' =
                     RegisterEndpointType(endpointTypes, num, meta)
    /\ UNCHANGED <<flowVars, decVars, dnsVars, useVars>>

NextRegistry ==
    \/ PackageInit
    \/ CallRegisterEndpointType

SpecRegistry == InitRegistry /\ [][NextRegistry]_vars

---------------------------------------------------------------------------
(* Decoding: a DecodeFromBytes call on an option block or on a message,    *)
(* made directly or by the packet under assembly.                          *)

InitDecode ==
    \* ICMPv6Options.DecodeFromBytes on every prefix of an option block, or a
    \* layer's DecodeFromBytes on every prefix of a message that carries one
    /\ \/ \E x \in Blocks(MaxOpts) : \E n \in 0..Len(x) :
             call = [kind |-> "Options", data |-> SubSeq(x, 1, n),
                     via |-> "direct", outer |-> 0]
       \/ \E k \in LayerKinds, v \in Vias, x \in Blocks(MaxOpts) :
             \E fb \in FlagChoices(k) :
                 LET msg == MessageHeader(k, fb) \o x
                 IN  \E n \in 0..Len(msg) :
                         call = [kind |-> k, data |-> SubSeq(msg, 1, n),
                                 via |-> v.via, outer |-> v.outer]
    /\ pc = IF call.via = "packet" THEN "pkt"
            ELSE IF call.kind = "Options" THEN "optloop" ELSE "call"
    /\ err = "nil"
    /\ lyr = FreshLayer
    /\ rest = IF call.kind = "Options" THEN call.data ELSE <<>>
    /\ trunc = FALSE
    /\ reads = {}
    /\ layers = <<>>
    /\ in1 = NoInput
    /\ in2 = NoInput
    /\ a = InvalidEndpoint
    /\ b = InvalidEndpoint
    /\ f = InvalidFlow
    /\ f0 = InvalidFlow
    /\ h0 = Zero64
    /\ h = Zero64
    /\ g2 = InvalidFlow
    /\ hg2 = Zero64
    /\ sbuf = <<>>
    /\ RegistryIdle
    /\ DNSIdle
    /\ UseIdle

\* the ranges sl of a slice that starts at offset base of call.data
Absolute(part, base, sl) ==
    {[part |-> part, lo |-> base + r[1], hi |-> base + r[2]] : r \in sl}

\* what a packet exposes for a decoded layer, and for a failed decode
DecodedLayer(type, index) == [type |-> type, index |-> index, err |-> "nil"]

DecodeFailure(index, e) == [type |-> "DecodeFailure", index |-> index, err |-> e]

\* The packet decodes one of the layers that precede the ICMPv6 message;
\* the decode succeeds and the layer is added, or it fails and the packet
\* ends with an error layer.
PacketDecodeOuter ==
    /\ pc = "pkt"
    /\ Len(layers) < call.outer
    /\ \E ok \in BOOLEAN :
          IF ok
          THEN /\ layers' = Append(layers,
                                   DecodedLayer("Outer", Len(layers) + 1))
               /\ UNCHANGED <<pc, err>>
          ELSE /\ layers' = Append(layers,
                                   DecodeFailure(Len(layers) + 1,
                                                 "outer layer malformed"))
               /\ err' = "outer layer malformed"
               /\ pc' = "pktError"
    /\ UNCHANGED <<call, lyr, rest, trunc, reads, sbuf, flowVars, regVars, dnsVars, useVars>>

\* decodeICMPv6X(data, p): i := &ICMPv6X{}, then decodingLayerDecoder calls
\* i.DecodeFromBytes(data, p)
PacketCallDecoder ==
    /\ pc = "pkt"
    /\ Len(layers) = call.outer
    /\ lyr' = FreshLayer
    /\ pc' = "call"
    /\ UNCHANGED <<err, call, rest, trunc, reads, layers, sbuf, flowVars, regVars, dnsVars, useVars>>

\* (i *ICMPv6X) DecodeFromBytes up to its call of i.Options.DecodeFromBytes
LayerDecodeFromBytes ==
    /\ pc = "call"
    /\ call.kind \in LayerKinds
    /\ LET data == call.data
           sl == HeaderSlices(call.kind, Len(data))
       IN  IF Len(data) < HeaderLen(call.kind)
           THEN /\ trunc' = TRUE
                /\ err' = "ICMP layer too short"
                /\ pc' = "returned"
                /\ UNCHANGED <<lyr, rest, reads>>
           ELSE IF \E r \in sl : ~InBounds(r, Len(data))
           THEN /\ err' = "panic: runtime error: slice bounds out of range"
                /\ pc' = "panic"
                /\ reads' = reads \cup Absolute("header", 0, sl)
                /\ UNCHANGED <<lyr, rest, trunc>>
           ELSE /\ lyr' = DecodeFields(call.kind, lyr, data)
                /\ rest' = SubSeq(data, OptionsOffset(call.kind) + 1, Len(data))
                /\ reads' = reads \cup Absolute("header", 0, sl)
                /\ pc' = "optloop"
                /\ UNCHANGED <<err, trunc>>
    /\ UNCHANGED <<call, layers, sbuf, flowVars, regVars, dnsVars, useVars>>

\* one pass through the loop of (i *ICMPv6Options) DecodeFromBytes
OptionsLoop ==
    /\ pc = "optloop"
    /\ LET r == OptionsLoopStep(rest)
           base == Len(call.data) - Len(rest)
       IN  /\ reads' = reads \cup Absolute("option", base, r.slices)
           /\ rest' = r.rest
           /\ err' = r.err
           /\ trunc' = (trunc \/ r.outcome = "truncated")
           /\ lyr' = IF r.outcome = "next"
                     THEN [lyr EXCEPT !.Options = Append(@, r.opt)]
                     ELSE lyr
           /\ pc' = CASE r.outcome = "next" -> "optloop"
                      [] r.outcome = "panic" -> "panic"
                      [] OTHER -> "returned"
    /\ UNCHANGED <<call, layers, sbuf, flowVars, regVars, dnsVars, useVars>>

\* decodingLayerDecoder after DecodeFromBytes has returned: an error goes
\* back through decodeICMPv6X to the packet, which ends with an error layer;
\* otherwise the layer is added to the packet
PacketFinish ==
    /\ pc = "returned"
    /\ call.via = "packet"
    /\ LET e == decodeICMPv6Return(err)
           n == Len(layers) + 1
       IN  IF e = "nil"
           THEN /\ layers' = Append(layers, DecodedLayer(call.kind, n))
                /\ pc' = "pktDone"
           ELSE /\ layers' = Append(layers, DecodeFailure(n, e))
                /\ pc' = "pktError"
    /\ UNCHANGED <<err, call, lyr, rest, trunc, reads, sbuf, flowVars, regVars, dnsVars, useVars>>

\* i.SerializeTo(bytes) on the layer (or the ICMPv6Options) just decoded
\* into: the body is empty and there is no result, so the caller's slice
\* is as it was and no error reaches the caller
CallSerializeTo ==
    /\ pc = "returned"
    /\ call.via = "direct"
    /\ \E bytes \in SerializeBuffers : sbuf' = bytes
    /\ err' = "nil"
    /\ pc' = "serialized"
    /\ UNCHANGED <<call, lyr, rest, trunc, reads, layers, flowVars, regVars, dnsVars, useVars>>

NextDecode ==
    \/ CallSerializeTo
    \/ PacketDecodeOuter
    \/ PacketCallDecoder
    \/ LayerDecodeFromBytes
    \/ OptionsLoop
    \/ PacketFinish

SpecDecode == InitDecode /\ [][NextDecode]_vars

\* A decode call runs to its end without being suspended (no I/O, one
\* thread): some step is taken whenever one is possible.
SpecDecodeFair == SpecDecode /\ WF_vars(NextDecode)

---------------------------------------------------------------------------
(* DNS: a caller constructs a layer, serializes it and decodes the bytes;  *)
(* or a message made by hand, cut at any length, is decoded.               *)

InitDNS ==
    /\ \/ /\ pc = "construct"
          /\ \E qs \in SeqsUpTo(QuestionChoices, MaxQuestions),
                rs \in SeqsUpTo(RecordChoices, MaxAnswers),
                qr \in BOOLEAN, rd \in BOOLEAN, cnt \in CountChoices :
                dns = [NoDNS EXCEPT !.ID = 1234, !.QR = qr, !.AA = qr,
                                    !.RD = rd, !.RA = qr,
                                    !.QDCount = cnt, !.ANCount = cnt,
                                    !.Questions = qs, !.Answers = rs]
          /\ sopts \in [FixLengths : BOOLEAN]
          /\ wire = <<>>
       \/ /\ pc = "decode"
          /\ dns = NoDNS
          /\ sopts = NoOpts
          /\ \E c \in CraftedCounts, nm \in CraftedNames :
                LET msg == CraftHeader(c[1], c[2]) \o FirstQuestion \o nm
                               \o CraftedTail(c[2])
                IN  \E n \in 0..Len(msg) : wire = SubSeq(msg, 1, n)
    /\ err = "nil"
    /\ dns2 = NoDNS
    /\ nd = NoName
    /\ FlowsIdle
    /\ DecodeIdle
    /\ RegistryIdle
    /\ UseIdle

\* gopacket.SerializeLayers(buf, opts, dns): with FixLengths the layer's
\* count and length fields are set first; wire is buf.Bytes()
CallSerializeLayers ==
    /\ pc = "construct"
    /\ LET d == IF sopts.FixLengths THEN FixLengths(dns) ELSE dns
       IN  /\ dns' = d
           /\ wire' = SerializeDNS(d)
    /\ pc' = "decode"
    /\ UNCHANGED <<err, dns2, nd, sopts, flowVars, decVars, regVars, useVars>>

\* the decoder reads the 12-octet header
DecodeHeader ==
    /\ pc = "decode"
    /\ IF Len(wire) < DNSHeaderLen
       THEN /\ err' = "DNS packet too short"
            /\ pc' = "dnsError"
            /\ UNCHANGED <<dns2, nd>>
       ELSE /\ dns2' = DecodeDNSHeader(wire)
            /\ nd' = StartName(DNSHeaderLen)
            /\ pc' = AfterEntry(dns2')
            /\ UNCHANGED err
    /\ UNCHANGED <<dns, wire, sopts, flowVars, decVars, regVars, useVars>>

\* one step of the name decoder, in a question or in a resource record
DecodeName ==
    /\ pc \in {"qname", "aname"}
    /\ LET r == NameStep(wire, nd)
       IN  /\ nd' = r.nd
           /\ err' = r.err
           /\ pc' = CASE r.outcome = "error" -> "dnsError"
                      [] r.outcome = "end" ->
                            IF pc = "qname" THEN "qtail" ELSE "atail"
                      [] OTHER -> pc
    /\ UNCHANGED <<dns, wire, dns2, sopts, flowVars, decVars, regVars, useVars>>

\* the type and class after a question's name; the question is appended
DecodeQuestionTail ==
    /\ pc = "qtail"
    /\ LET i == nd.index
       IN  IF i + QuestionTailLen > Len(wire)
           THEN /\ err' = "dns question too short"
                /\ pc' = "dnsError"
                /\ UNCHANGED <<dns2, nd>>
           ELSE /\ dns2' = [dns2 EXCEPT !.Questions = Append(@,
                              [Name |-> JoinLabels(nd.labels, 1),
                               Type |-> 256 * wire[i + 1] + wire[i + 2],
                               Class |-> 256 * wire[i + 3] + wire[i + 4]])]
                /\ nd' = StartName(i + QuestionTailLen)
                /\ pc' = AfterEntry(dns2')
                /\ UNCHANGED err
    /\ UNCHANGED <<dns, wire, sopts, flowVars, decVars, regVars, useVars>>

\* type, class, TTL, data length and data after a record's name; the
\* record is appended
DecodeRecordTail ==
    /\ pc = "atail"
    /\ LET i == nd.index
       IN  IF i + RecordTailLen > Len(wire)
           THEN /\ err' = "dns record too short"
                /\ pc' = "dnsError"
                /\ UNCHANGED <<dns2, nd>>
           ELSE LET len == 256 * wire[i + 9] + wire[i + 10]
                    end == i + RecordTailLen + len
                IN  IF end > Len(wire)
                    THEN /\ err' = "dns record data too short"
                         /\ pc' = "dnsError"
                         /\ nd' = [nd EXCEPT !.hi = i + RecordTailLen]
                         /\ UNCHANGED dns2
                    ELSE /\ dns2' = [dns2 EXCEPT !.Answers = Append(@,
                                       [Name |-> JoinLabels(nd.labels, 1),
                                        Type |-> 256 * wire[i + 1] + wire[i + 2],
                                        Class |-> 256 * wire[i + 3] + wire[i + 4],
                                        TTL |-> SubSeq(wire, i + 5, i + 8),
                                        DataLength |-> len,
                                        IP |-> SubSeq(wire, i + RecordTailLen + 1, end)])]
                         /\ nd' = StartName(end)
                         /\ pc' = AfterEntry(dns2')
                         /\ UNCHANGED err
    /\ UNCHANGED <<dns, wire, sopts, flowVars, decVars, regVars, useVars>>

NextDNS ==
    \/ CallSerializeLayers
    \/ DecodeHeader
    \/ DecodeName
    \/ DecodeQuestionTail
    \/ DecodeRecordTail

SpecDNS == InitDNS /\ [][NextDNS]_vars

\* A decode call runs to its end without being suspended.
SpecDNSFair == SpecDNS /\ WF_vars(NextDNS)

---------------------------------------------------------------------------
(* Properties of flows.go, stated of the behaviours of Spec *)

\* the calls that have just returned (or panicked) in the current state
JustCalledNewEndpointA == pc \in {"haveA", "panicA"}
JustCalledNewEndpointB == pc \in {"haveAB", "panicB"}
Panicked == pc \in {"panicA", "panicB", "panicFlow"}

\* C2 (as claimed): for every flow f that NewFlow or FlowFromEndpoints
\* builds, source and destination lengths not required to be equal,
\* f.FastHash() == f.Reverse().FastHash().  Here f0 is the flow as built,
\* f is f0.Reverse(), and h0, h are their hashes.
C2_FastHashOfReverse == pc = "hashed" => h = h0

C6_OverlongIsRecoverableError ==
    /\ (JustCalledNewEndpointA /\ Len(in1.raw) > MaxEndpointSize) =>
          (~Panicked /\ err = "AddressTooLong")
    /\ (JustCalledNewEndpointB /\ Len(in2.raw) > MaxEndpointSize) =>
          (~Panicked /\ err = "AddressTooLong")

\* C6 (amended): NewEndpoint called with more than 16 bytes panics with
\* "raw byte length greater than MaxEndpointSize" and yields no endpoint
\* (the caller's variable keeps the value it had), so no endpoint ever holds
\* a truncated copy of the data.
C6_OverlongPanics ==
    /\ (JustCalledNewEndpointA /\ Len(in1.raw) > MaxEndpointSize) =>
          /\ pc = "panicA"
          /\ err = "panic: raw byte length greater than MaxEndpointSize"
          /\ a = InvalidEndpoint
    /\ (JustCalledNewEndpointB /\ Len(in2.raw) > MaxEndpointSize) =>
          /\ pc = "panicB"
          /\ err = "panic: raw byte length greater than MaxEndpointSize"
          /\ b = InvalidEndpoint

\* C6 witness: the second NewEndpoint call was given 17 bytes and panicked
\* after the first one had succeeded.
C6_Witness ==
    /\ pc = "panicB"
    /\ Len(in2.raw) = MaxEndpointSize + 1
    /\ a # InvalidEndpoint

\* C7: FlowFromEndpoints(src, dst) returns an error if and only if the two
\* endpoint types differ; with different types the returned flow is the zero
\* flow, with equal types the error is nil (and the flow carries src, dst).
C7_FlowFromEndpointsError ==
    pc \in {"flow", "mismatch"} =>
        /\ (err # "nil") <=> (EndpointType(a) # EndpointType(b))
        /\ (EndpointType(a) # EndpointType(b)) => f = ZeroFlow
        /\ (EndpointType(a) = EndpointType(b)) =>
              (err = "nil" /\ Src(f) = a /\ Dst(f) = b)

\* C7 witness: FlowFromEndpoints has returned an error for two non-empty
\* endpoints of different types.
C7_Witness ==
    /\ pc = "mismatch"
    /\ a.len > 0
    /\ b.len > 0
    /\ a.raw # ZeroBuf

\* C8: Reverse swaps the two sides and keeps the type, and applying it
\* twice gives back the original flow.
C8_ReverseSwaps ==
    /\ pc \in {"rev1", "hashed"} =>
          /\ Src(f) = Dst(f0)
          /\ Dst(f) = Src(f0)
          /\ FlowEndpointType(f) = FlowEndpointType(f0)
    /\ pc = "rev2" => f = f0

\* C8 witness: a flow whose two sides differ in length and content has been
\* reversed twice.
C8_Witness ==
    /\ pc = "rev2"
    /\ f0.slen # f0.dlen
    /\ f0.src # f0.dst
    /\ f0.slen > 0
    /\ f0.dlen > 0

\* Go's == on two Endpoint structs: every field, the whole 16-byte array
GoEqual(x, y) == x.typ = y.typ /\ x.len = y.len /\ x.raw = y.raw

\* same type and same meaningful raw bytes
SameAddress(x, y) == EndpointType(x) = EndpointType(y) /\ Raw(x) = Raw(y)

\* C9: two endpoints obtained through the public operations (NewEndpoint,
\* Flow.Src/Dst/Endpoints, InvalidEndpoint) compare equal as Go values iff
\* they have the same type and the same meaningful raw bytes.
C9_EndpointEquality ==
    /\ GoEqual(a, b) <=> SameAddress(a, b)
    /\ GoEqual(a, InvalidEndpoint) <=> SameAddress(a, InvalidEndpoint)
    /\ GoEqual(b, InvalidEndpoint) <=> SameAddress(b, InvalidEndpoint)

\* C9 witness: two endpoints taken out of a flow whose buffers hold the same
\* 16 bytes but whose lengths differ (all-zero addresses of two lengths).
C9_Witness ==
    /\ pc = "ends"
    /\ a.raw = b.raw
    /\ a.len # b.len
    /\ a.len > 0
    /\ b.len > 0

\* x sorts before y lexicographically: at the first position where they
\* differ x has the smaller byte, or x is a proper prefix of y
LexLess(x, y) ==
    \E k \in 1..Len(y) :
        /\ k <= Len(x) + 1
        /\ \A j \in 1..(k - 1) : x[j] = y[j]
        /\ (k = Len(x) + 1 \/ x[k] < y[k])

\* longest address among the endpoints the ordering is probed with
MaxProbeLen == 2

\* endpoints a third party to a comparison is drawn from
Probes ==
    {NewEndpoint(t, Cycle(p, n)) :
        t \in Types, p \in ByteVals \X ByteVals, n \in 0..MaxProbeLen}

\* C10: LessThan is a strict total order: irreflexive, transitive, for two
\* unequal endpoints exactly one of a.LessThan(b), b.LessThan(a) holds, and
\* it orders by type first and then lexicographically by the meaningful raw
\* bytes, a proper prefix sorting before the longer address.  It is stated
\* of the endpoints a, b the caller holds whenever one of them has just been
\* assigned, transitivity against every endpoint c of Probes.
C10_LessThanStrictTotalOrder ==
    pc \in {"haveA", "haveAB", "ends"} =>
        /\ ~LessThan(a, a)
        /\ ~LessThan(b, b)
        /\ ~GoEqual(a, b) => (LessThan(a, b) <=> ~LessThan(b, a))
        /\ LessThan(a, b) <=>
              \/ EndpointType(a) < EndpointType(b)
              \/ EndpointType(a) = EndpointType(b) /\ LexLess(Raw(a), Raw(b))
        /\ pc = "haveAB" =>
              LET ab == LessThan(a, b)
              IN  \A c \in Probes :
                      LET ac == LessThan(a, c)
                          ca == LessThan(c, a)
                          bc == LessThan(b, c)
                          cb == LessThan(c, b)
                      IN  /\ (ab /\ bc) => ac
                          /\ (ca /\ ab) => cb
                          /\ (ac /\ cb) => ab

\* C10 witness: two endpoints of one type, the first a proper prefix of the
\* second and at least two bytes long, so the first sorts before the second.
C10_Witness ==
    /\ pc = "haveAB"
    /\ EndpointType(a) = EndpointType(b)
    /\ a.len >= 2
    /\ a.len < b.len
    /\ Raw(a) = SubSeq(Raw(b), 1, a.len)
    /\ LessThan(a, b)

\* longest address for which Endpoint.FastHash keeps every byte in a lane
\* of its own (the 8 bytes of a uint64)
HashLanes == 8

C12_FlowFastHashCollisionFree ==
    (pc = "ghashed" /\ f0.slen <= HashWords /\ f0.dlen <= HashWords
        /\ g2.slen <= HashWords /\ g2.dlen <= HashWords
        /\ FlowEndpointType(g2) = FlowEndpointType(f0) /\ hg2 = h0) =>
        (g2 = f0 \/ g2 = Reverse(f0))

---------------------------------------------------------------------------
(* A caller that keeps one layer object and decodes one input after        *)
(* another into it (having recovered, if a decode panicked).               *)

InitReuse ==
    /\ \E k \in LayerKinds, x \in ReuseBlocks :
          LET msg == MessageHeader(k, 0) \o x
          IN  \E n \in ReuseCuts(k, msg) :
                  call = [kind |-> k, data |-> SubSeq(msg, 1, n),
                          via |-> "direct", outer |-> 0]
    /\ pc = "call"
    /\ err = "nil"
    /\ lyr = FreshLayer
    /\ rest = <<>>
    /\ trunc = FALSE
    /\ reads = {}
    /\ layers = <<>>
    /\ sbuf = <<>>
    /\ FlowsIdle
    /\ RegistryIdle
    /\ DNSIdle
    /\ UseIdle

\* the next i.DecodeFromBytes(data, df) on the same i, with a new df
CallDecodeAgain ==
    /\ pc \in {"returned", "panic"}
    /\ call.via = "direct"
    /\ call.kind \in LayerKinds
    /\ ndecoded + 1 < MaxDecodes
    /\ \E x \in ReuseBlocks :
          LET msg == MessageHeader(call.kind, 0) \o x
          IN  \E n \in ReuseCuts(call.kind, msg) :
                  call' = [call EXCEPT !.data = SubSeq(msg, 1, n)]
    /\ ndecoded' = ndecoded + 1
    /\ before' = lyr.Options
    /\ rest' = <<>>
    /\ trunc' = FALSE
    /\ reads' = {}
    /\ err' = "nil"
    /\ pc' = "call"
    /\ UNCHANGED <<lyr, layers, sbuf, acc, flowVars, regVars, dnsVars>>

NextReuse ==
    \/ LayerDecodeFromBytes
    \/ OptionsLoop
    \/ CallDecodeAgain

SpecReuse == InitReuse /\ [][NextReuse]_vars

\* a [MaxEndpointSize]byte with a stored length: the length fits, and the
\* bytes from index len on are zero
Padded(buf, len) ==
    /\ len \in 0..MaxEndpointSize
    /\ Len(buf) = MaxEndpointSize
    /\ \A i \in 1..MaxEndpointSize : i > len => buf[i] = 0

\* the indices Endpoint.FastHash reads a.raw at
EndpointHashIndices(e) == {i : i \in 0..(e.len - 1)}

\* the indices Flow.FastHash reads f.src and f.dst at
FlowHashIndices(fl) == {fl.slen - 1 - i : i \in 0..(fl.slen - 1)}

EndpointWellFormed(e) ==
    /\ Padded(e.raw, e.len)
    /\ \A i \in EndpointHashIndices(e) : 0 <= i /\ i < MaxEndpointSize

FlowWellFormed(fl) ==
    /\ Padded(fl.src, fl.slen)
    /\ Padded(fl.dst, fl.dlen)
    /\ \A i \in FlowHashIndices(fl) : 0 <= i /\ i < MaxEndpointSize

\* C22: every Endpoint and Flow reachable through NewEndpoint, NewFlow,
\* FlowFromEndpoints, Reverse, Src, Dst, Endpoints and the Invalid
\* singletons has each stored length in 0..16 and zero bytes from that
\* length on, so that no operation, FastHash included, indexes outside the
\* 16-byte buffers.
C22_LengthsAndPadding ==
    /\ \A e \in {a, b, InvalidEndpoint} : EndpointWellFormed(e)
    /\ \A fl \in {f, f0, g2, InvalidFlow} : FlowWellFormed(fl)
    /\ FlowWellFormed(Reverse(f))
    /\ \A e \in {Src(f), Dst(f), Endpoints(f)[1], Endpoints(f)[2]} :
          EndpointWellFormed(e)

\* a flow of a full 16-byte address and a one-byte address, none of their
\* bytes zero, has been built, reversed and hashed, and its endpoints taken
C22_Witness ==
    /\ pc = "ends"
    /\ f0 = Reverse(f)
    /\ f.slen = MaxEndpointSize
    /\ f.dlen = 1
    /\ \A i \in 1..f.slen : f.src[i] /= 0
    /\ f.dst[1] /= 0
    /\ a = Src(f)
    /\ b = Dst(f)
    /\ h = FastHash(f)

\* the caller holds in f0 a flow a constructor returned for in1 and in2
FlowBuilt ==
    pc \in {"flow", "newflow", "rev1", "rev2", "hashed", "ghashed", "ends"}

---------------------------------------------------------------------------
(* A caller that decodes a router or neighbor advertisement and then asks  *)
(* the layer for its flags.                                                *)

\* the messages that carry a flags octet
FlagKinds == {k \in LayerKinds : FlagsPos(k) /= 0}

\* the option blocks that follow the header of those messages
FlagBlocks == {<<>>} \cup {Chunk(c) : c \in {o \in OptChunks : o.type = 1}}

InitFlags ==
    /\ \E k \in FlagKinds, fb \in 0..255, x \in FlagBlocks :
          LET msg == MessageHeader(k, fb) \o x
          IN  \E n \in {MessageHeaderLen(k) - 1, Len(msg)} :
                  call = [kind |-> k, data |-> SubSeq(msg, 1, n),
                          via |-> "direct", outer |-> 0]
    /\ pc = "call"
    /\ err = "nil"
    /\ lyr = FreshLayer
    /\ rest = <<>>
    /\ trunc = FALSE
    /\ reads = {}
    /\ layers = <<>>
    /\ sbuf = <<>>
    /\ FlowsIdle
    /\ RegistryIdle
    /\ DNSIdle
    /\ UseIdle

\* i.ManagedAddressConfig() and i.OtherConfig() on a router advertisement,
\* i.Router(), i.Solicited() and i.Override() on a neighbor advertisement
CallFlagAccessors ==
    /\ pc = "returned"
    /\ call.via = "direct"
    /\ call.kind \in FlagKinds
    /\ acc' = IF call.kind = "RouterAdvertisement"
              THEN [NoAccessors EXCEPT
                      !.ManagedAddressConfig = ManagedAddressConfig(lyr),
                      !.OtherConfig = OtherConfig(lyr)]
              ELSE [NoAccessors EXCEPT
                      !.Router = Router(lyr),
                      !.Solicited = Solicited(lyr),
                      !.Override = Override(lyr)]
    /\ pc' = "accessed"
    /\ UNCHANGED <<err, ndecoded, before, decVars, flowVars, regVars, dnsVars>>

NextFlags ==
    \/ LayerDecodeFromBytes
    \/ OptionsLoop
    \/ CallFlagAccessors

SpecFlags == InitFlags /\ [][NextFlags]_vars

---------------------------------------------------------------------------
(* Properties of the registry, stated of the behaviours of SpecRegistry *)

\* the tags present in a registry
RegisteredTags(reg) == {t \in RegTags : reg[t].ok}

\* C13: once the package is initialised tag 0 is registered with the name
\* "invalid"; and every step of the registry is one of: a call whose tag
\* is already registered, which panics and leaves the registry unchanged,
\* or a call with an unused tag, which succeeds and adds exactly that tag
\* with the metadata passed; so no entry is ever removed or overwritten
\* and each tag keeps the metadata of its first registration.
C13_RegistryAppendOnly ==
    /\ [](pc # "pkginit" =>
            (endpointTypes[0].ok /\ endpointTypes[0].meta.Name = "invalid"))
    /\ [][ /\ \A t \in RegisteredTags(endpointTypes) :
                 endpointTypes'[t] = endpointTypes[t]
           /\ IF regCall'.num \in RegisteredTags(endpointTypes)
              THEN /\ regCall'.panicked
                   /\ pc' = "regPanic"
                   /\ endpointTypes' = endpointTypes
              ELSE /\ ~regCall'.panicked
                   /\ pc' = "ready"
                   /\ RegisteredTags(endpointTypes') =
                         RegisteredTags(endpointTypes) \cup {regCall'.num}
                   /\ endpointTypes'[regCall'.num] = Entry(regCall'.meta)
         ]_vars

\* C13 witness: with three tags registered, a call that offers tag 1000
\* again under other metadata has panicked, and the entry is the old one.
C13_Witness ==
    /\ pc = "regPanic"
    /\ regCall.num = 1000
    /\ endpointTypes[1000].ok
    /\ endpointTypes[1000].meta # regCall.meta
    /\ Cardinality(RegisteredTags(endpointTypes)) = 3

---------------------------------------------------------------------------
(* Properties of the DNS layer, stated of the behaviours of SpecDNS *)

\* the name decoder stands on a complete compression pointer
AtPointer ==
    /\ pc \in {"qname", "aname"}
    /\ nd.index + 2 <= Len(wire)
    /\ wire[nd.index + 1] >= 192

DNSEnded == pc \in {"dnsDone", "dnsError"}

\* C16: name decompression terminates on every input.  A compression
\* pointer that targets its own position, a later position or an offset
\* beyond the message makes the decode stop at once with an error ("offset
\* pointer too high" or "invalid index"); no offset outside the message is
\* ever read; and every decode comes to an end.
C16_NameDecompressionTerminates ==
    /\ [](nd.hi <= Len(wire))
    /\ [][(AtPointer /\ PointerTarget(wire, nd) >= nd.index) =>
             /\ pc' = "dnsError"
             /\ err' \in {"dns offset pointer too high",
                          "dns name uncomputable: invalid index"}
             /\ dns2' = dns2
         ]_vars
    /\ [][(pc \in {"qname", "aname"} /\ pc' = pc) =>
             \/ nd'.bound < nd.bound
             \/ nd'.bound = nd.bound /\ nd'.index > nd.index
         ]_vars
    /\ <>DNSEnded

\* C16 witness: the decode has stopped with an error on a pointer that
\* targets its own position, after one question had been decoded.
C16_Witness ==
    /\ pc = "dnsError"
    /\ Len(dns2.Questions) = 1
    /\ nd.index + 2 <= Len(wire)
    /\ wire[nd.index + 1] >= 192
    /\ PointerTarget(wire, nd) = nd.index

\* C17: a constructed DNS layer serialized with FixLengths has QDCount =
\* number of questions and ANCount = number of answers from then on, and
\* decoding the produced bytes succeeds and yields a layer with equal ID,
\* flags, counts and question and answer lists.
C17_DNSRoundTrip ==
    (sopts.FixLengths /\ pc # "construct") =>
        /\ dns.QDCount = Len(dns.Questions)
        /\ dns.ANCount = Len(dns.Answers)
        /\ wire = SerializeDNS(dns)
        /\ pc # "dnsError"
        /\ pc = "dnsDone" =>
              /\ dns2.ID = dns.ID
              /\ <<dns2.QR, dns2.OpCode, dns2.AA, dns2.TC, dns2.RD, dns2.RA,
                   dns2.Z, dns2.ResponseCode>>
                 = <<dns.QR, dns.OpCode, dns.AA, dns.TC, dns.RD, dns.RA,
                     dns.Z, dns.ResponseCode>>
              /\ <<dns2.QDCount, dns2.ANCount, dns2.NSCount, dns2.ARCount>>
                 = <<dns.QDCount, dns.ANCount, dns.NSCount, dns.ARCount>>
              /\ dns2.Questions = dns.Questions
              /\ dns2.Answers = dns.Answers

\* C17 witness: a response with two different questions and two different
\* answers has been serialized with FixLengths and decoded.
C17_Witness ==
    /\ pc = "dnsDone"
    /\ sopts.FixLengths
    /\ dns.QR
    /\ Len(dns.Questions) = 2
    /\ dns.Questions[1] # dns.Questions[2]
    /\ Len(dns.Answers) = 2
    /\ dns.Answers[1] # dns.Answers[2]
    /\ dns2.Answers = dns.Answers

---------------------------------------------------------------------------
(* Properties of layers/icmp6msg.go, stated of the behaviours of SpecDecode *)

\* a recorded range lies within the bytes handed to the decode call
ReadInBounds(r) == 0 <= r.lo /\ r.lo <= r.hi /\ r.hi <= Len(call.data)

\* C1 (as claimed): for every byte sequence given to
\* ICMPv6Options.DecodeFromBytes the call either returns nil or calls
\* SetTruncated and returns an error, and it never indexes or slices outside
\* the supplied data (no out-of-bounds panic).
C1_OptionsDecodeNeverPanics ==
    call.kind = "Options" =>
        /\ pc # "panic"
        /\ pc = "returned" => (err = "nil" \/ trunc)
        /\ \A r \in reads : ReadInBounds(r)

C4_FixedHeaderBounds ==
    (call.kind \in LayerKinds /\ pc \in {"optloop", "returned", "panic"}) =>
        IF Len(call.data) < MessageHeaderLen(call.kind)
        THEN /\ pc = "returned"
             /\ trunc
             /\ err \notin {"nil", "panic: runtime error: slice bounds out of range"}
             /\ reads = {}
        ELSE /\ \E r \in reads : r.part = "header"
             /\ \A r \in reads : r.part = "header" => ReadInBounds(r)

\* C4 witness: a Redirect message one byte short of its 36-byte fixed header
\* has been refused as truncated.
C4_Witness ==
    /\ pc = "returned"
    /\ call.kind = "Redirect"
    /\ call.via = "direct"
    /\ Len(call.data) = 35
    /\ trunc

\* C14 (as claimed): after a successful DecodeFromBytes of a
\* neighbor-discovery layer, the layer's Contents followed by its Payload
\* are the bytes handed to the decode call (Contents the prefix the layer
\* consumed, Payload the rest).
C14_ContentsThenPayload ==
    (call.kind \in LayerKinds /\ pc \in {"returned", "pktDone"}
        /\ err = "nil") =>
        lyr.Contents \o lyr.Payload = call.data

\* C15 (as claimed): SerializeTo of a neighbor-discovery layer or of
\* ICMPv6Options reports a "serialization unsupported" error to the
\* caller; it is never a silent no-op.
C15_SerializeReportsUnsupported ==
    pc = "serialized" => err # "nil"

\* the decode call is over: it has returned or panicked (and what follows
\* it has happened)
CallEnded == pc \in {"returned", "panic", "pktDone", "pktError", "serialized"}

\* C18: every pass through the loop of ICMPv6Options.DecodeFromBytes after
\* which the loop goes on has strictly shortened the remaining bytes (the
\* other passes end the call, by a return or by the panic on a zero length
\* byte), and every call comes to an end: no input makes the loop stall or
\* run forever.
C18_ForwardProgress ==
    /\ [][(pc = "optloop" /\ pc' = "optloop") =>
             (Len(rest') < Len(rest) /\ Len(lyr'.Options) = Len(lyr.Options) + 1)
         ]_vars
    /\ <>CallEnded

\* C18 witness: after one option was consumed the loop met an option whose
\* length byte is 0, which consumes no bytes, and the call ended there.
C18_Witness ==
    /\ pc = "panic"
    /\ call.kind = "Options"
    /\ Len(lyr.Options) = 1
    /\ Len(rest) >= 2
    /\ rest[2] = 0

\* the bytes of call.data that ICMPv6Options.DecodeFromBytes was handed
OptionBytes ==
    LET base == IF call.kind = "Options" THEN 0
                ELSE MessageHeaderLen(call.kind)
    IN  SubSeq(call.data, base + 1, Len(call.data))

RECURSIVE LengthSum(_, _)
\* the sum of the Length fields of the first k entries
LengthSum(opts, k) == IF k = 0 THEN 0 ELSE LengthSum(opts, k - 1) + opts[k].Length

\* entry k of opts is what the wire has at the place the entries before it
\* end: type octet, length octet times 8, and the bytes between the 2-byte
\* header and the end of the option
EntryOnWire(opts, k, data) ==
    LET at == LengthSum(opts, k - 1)
    IN  /\ at + 2 <= Len(data)
        /\ opts[k].Type = data[at + 1]
        /\ opts[k].Length = 8 * data[at + 2]
        /\ at + opts[k].Length <= Len(data)
        /\ opts[k].Data = SubSeq(data, at + 3, at + opts[k].Length)
        /\ Len(opts[k].Data) = opts[k].Length - 2

\* the option decoder was entered (the fixed header, if any, was long enough)
InOptions ==
    /\ call.kind \in LayerKinds \cup {"Options"}
    /\ call.kind \in LayerKinds => Len(call.data) >= MessageHeaderLen(call.kind)

\* the option decoder was entered and its call is over
OptionsCallOver ==
    /\ InOptions
    /\ \/ pc \in {"returned", "panic"}
       \/ pc \in {"pktDone", "pktError"} /\ Len(layers) = call.outer + 1

\* C19: when ICMPv6Options.DecodeFromBytes returns nil the entries are in
\* wire order and tile the input: entry k has Type = its first byte,
\* Length = 8 x its second byte, Data = the bytes after its 2-byte header
\* up to Length, each entry starts where the one before it ends, and the
\* Length values sum to len(data); nothing is left in the cursor.
C19_OptionsTileInput ==
    (OptionsCallOver /\ err = "nil") =>
        LET opts == lyr.Options
            data == OptionBytes
        IN  /\ \A k \in 1..Len(opts) : EntryOnWire(opts, k, data)
            /\ LengthSum(opts, Len(opts)) = Len(data)
            /\ rest = <<>>

\* C19 witness: an 8-byte option followed by a 16-byte option has been
\* decoded by a direct call.
C19_Witness ==
    /\ pc = "returned"
    /\ err = "nil"
    /\ call.kind = "Options"
    /\ Len(lyr.Options) = 2
    /\ lyr.Options[1].Length = 8
    /\ lyr.Options[2].Length = 16
    /\ Len(call.data) = 24

\* what is left at the cursor cannot hold an option: fewer than 2 bytes,
\* or an option whose declared byte length is more than what is left
CannotHoldOption(left) ==
    Len(left) > 0 /\ (Len(left) < 2 \/ 8 * left[2] > Len(left))

\* C20: ICMPv6Options.DecodeFromBytes stops with a truncation error
\* exactly when what is left at the cursor cannot hold an option; then the
\* options parsed before are in the output in wire order, the cursor is
\* where the failing entry starts, and no entry was appended for it.
C20_TruncationKeepsParsed ==
    OptionsCallOver =>
        LET opts == lyr.Options
            data == OptionBytes
            at == LengthSum(opts, Len(opts))
            left == SubSeq(data, at + 1, Len(data))
        IN  /\ trunc <=> CannotHoldOption(left)
            /\ trunc =>
                  /\ err \notin {"nil", "panic: runtime error: slice bounds out of range"}
                  /\ \A k \in 1..Len(opts) : EntryOnWire(opts, k, data)
                  /\ rest = left

\* C20 witness: a direct call parsed one option and then stopped on an
\* option that declares 32 bytes where 8 are left.
C20_Witness ==
    /\ pc = "returned"
    /\ call.kind = "Options"
    /\ trunc
    /\ Len(lyr.Options) = 1
    /\ Len(rest) = 8
    /\ rest[2] = 4

---------------------------------------------------------------------------
(* Properties of a reused layer, stated of the behaviours of SpecReuse *)

RECURSIVE OptionsOf(_, _)
\* the options ICMPv6Options.DecodeFromBytes appends to sofar on input d
OptionsOf(d, sofar) ==
    LET r == OptionsLoopStep(d)
    IN  IF r.outcome = "next" THEN OptionsOf(r.rest, Append(sofar, r.opt))
        ELSE sofar

\* Options of a fresh layer after DecodeFromBytes(data) has ended
FreshDecodeOptions(kind, data) ==
    OptionsOf(SubSeq(data, OptionsOffset(kind) + 1, Len(data)),
              DecodeFields(kind, FreshLayer, data).Options)

\* a DecodeFromBytes call on a layer has ended, having passed the length
\* check of its fixed header
EndedPastHeader ==
    /\ pc \in {"returned", "panic"}
    /\ call.kind \in LayerKinds
    /\ call.via = "direct"
    /\ Len(call.data) >= HeaderLen(call.kind)

\* C21: after any sequence of DecodeFromBytes calls on one neighbor-
\* discovery layer, if the last call passed its fixed-header length check,
\* Options is the list that decoding the last input into a fresh layer
\* gives: nothing is left over from the earlier decodes.
C21_ReuseKeepsOnlyLastOptions ==
    EndedPastHeader => lyr.Options = FreshDecodeOptions(call.kind, call.data)

\* an earlier decode left options in the layer, and the last decode, of
\* another input, has returned nil with options of its own
C21_Witness ==
    /\ EndedPastHeader
    /\ ndecoded >= 1
    /\ before /= <<>>
    /\ pc = "returned"
    /\ err = "nil"
    /\ lyr.Options /= <<>>
    /\ lyr.Options[1] /= before[1]

---------------------------------------------------------------------------
(* Properties of the flag accessors, stated of the behaviours of SpecFlags *)

\* bit m (a power of two) of the octet x is set
BitSet(x, m) == (x \div m) % 2 = 1

\* the flags octet of the message that was decoded
WireFlags == call.data[FlagsPos(call.kind)]

\* the accessors were called on a layer decoded from a whole message
AccessedDecoded ==
    /\ pc = "accessed"
    /\ err = "nil"
    /\ Len(call.data) >= HeaderLen(call.kind)

\* C24: each flag accessor tests exactly its bit of the decoded Flags byte,
\* for all 256 values: on a router advertisement ManagedAddressConfig() is
\* true iff bit 0x80 is set and OtherConfig() iff bit 0x40 is set; on a
\* neighbor advertisement Router(), Solicited() and Override() are true iff
\* bits 0x80, 0x40 and 0x20 are set.
C24_FlagAccessorsTestTheirBit ==
    AccessedDecoded =>
        /\ lyr.Flags = WireFlags
        /\ call.kind = "RouterAdvertisement" =>
              /\ acc.ManagedAddressConfig = BitSet(WireFlags, 128)
              /\ acc.OtherConfig = BitSet(WireFlags, 64)
        /\ call.kind = "NeighborAdvertisement" =>
              /\ acc.Router = BitSet(WireFlags, 128)
              /\ acc.Solicited = BitSet(WireFlags, 64)
              /\ acc.Override = BitSet(WireFlags, 32)

===========================================================================
